---- MODULE Spec2Model ----
(***************************************************************************)
(* The conversation store of the chat front end (core/store): the zustand  *)
(* state, sendMessage's ingestion of the event stream, the research        *)
(* grouping done by appendMessage / updateMessage, the interrupt and       *)
(* feedback accessors, and the listenToPodcast workflow.                   *)
(*                                                                         *)
(* JavaScript runs one task at a time, so every action below is one        *)
(* synchronous run of code between two awaits: the start of sendMessage up *)
(* to the first await of the stream, the body of the for-await loop for    *)
(* one event, the catch/finally blocks, a click handler, the continuation  *)
(* of listenToPodcast after generatePodcast settles.                       *)
(***************************************************************************)
EXTENDS Integers, Sequences, FiniteSets, TLC

\* ---------------------------------------------------------------- bounds
\* How many messages with a nanoid() id (user messages, the two synthetic
\* podcast messages) a behaviour may append.
MaxLocal == 2
\* How many events, in all, the streams of a behaviour deliver.
MaxEvents == 4
\* How many times a behaviour calls sendMessage.
MaxSends == 2

\* ------------------------------------------------------------ input sets
None == "null"
\* Message ids the server may put in data.id. The code only compares ids for
\* equality, so the k-th id the streams use for the first time is named mk.
ServerIdSeq == <<"m1", "m2", "m3">>
ServerIds == {ServerIdSeq[k] : k \in 1..Len(ServerIdSeq)}
\* The ids nanoid() returns, in the order it returns them.
LocalIds == <<"n1", "n2", "n3", "n4", "n5", "n6">>
ToolCallIds == {"t1"}
\* A fragment of text is a sequence of characters.
Frags == {<<"a">>}
NoFrag == <<>>
ResultText == <<"r">>
\* The result of a tool call that has none yet (undefined).
NoResult == <<>>
\* What the user types.
UserText == <<"q">>
\* "Please generate a podcast for the above research."
PodcastRequest == <<"p">>
\* What generatePodcast resolves with, and the message it rejects with.
AudioUrl == "blob:audio"
ErrorText == "Unknown error"
FinishReasons == {"stop", "interrupt"}
\* The sendMessage invocations that may be in flight together.
Invs == {1, 2}

\* ---------------------------------------------------------------- state
VARIABLES
  store,      \* the zustand state: useStore.getState()
  pc,         \* per sendMessage invocation: where it is
  messageId,  \* per invocation: its local `messageId` (None once it returns)
  created,    \* per invocation: ids of the messages its events created
  invToasts,  \* per invocation: toasts it has shown
  podcasts,   \* listenToPodcast calls awaiting generatePodcast
  podLog,     \* per podcast message id: writes and toasts of its workflow
  nEvents,    \* events delivered so far
  nSends,     \* calls of sendMessage so far
  lastEvent,  \* per invocation: the loop variable `event`: the event the body ran
              \* on last, kept when the body threw on it, NoEvent otherwise
  userMessageId, \* per invocation: the id of the user message it appended, or None
  mav,        \* the zustand state of the visualization: useMAVStore.getState()
  loops,      \* play() calls awaiting their sleep(3000)
  hasPlayed   \* the component state hasPlayed of MultiAgentVisualization

vars == <<store, pc, messageId, created, invToasts, podcasts, podLog, nEvents, nSends,
          lastEvent, userMessageId, mav, loops, hasPlayed>>

\* The variables of the chat store and its workflows, and those of the
\* multi-agent visualization.
chatVars == <<store, pc, messageId, created, invToasts, podcasts, podLog, nEvents, nSends,
              lastEvent, userMessageId>>

mavVars == <<mav, loops, hasPlayed>>

\* ------------------------------------------------------- small utilities
Range(s) == {s[k] : k \in 1..Len(s)}

Reverse(s) == [k \in 1..Len(s) |-> s[Len(s) + 1 - k]]

\* Map.prototype.set on a map held as a function: the value under key k.
MapSet(m, k, v) == [x \in (DOMAIN m) \cup {k} |-> IF x = k THEN v ELSE m[x]]

\* The key order of a Map after set(k, _): a new key goes last, a known key
\* keeps its place.
KeysSet(keys, k) == IF k \in Range(keys) THEN keys ELSE Append(keys, k)

EmptyMap == [x \in {} |-> None]

\* values.find((message) => message.toolCalls?.some((toolCall) =>
\* toolCall.id === toolCallId)) over a sequence of messages: the id of the
\* first message that declares the tool call, or None for undefined.
findDeclaring(values, toolCallId) ==
  LET hits == {k \in 1..Len(values) :
                 \E j \in 1..Len(values[k].toolCalls) :
                   values[k].toolCalls[j].id = toolCallId}
  IN  IF hits = {} THEN None
      ELSE values[CHOOSE k \in hits : \A j \in hits : k <= j].id

\* ------------------------------------------------------------- messages
\* A Message. Fields a message does not carry (agent, finishReason) are None;
\* an absent isStreaming is FALSE and an absent toolCalls is << >>, which is
\* how the code reads them (message?.isStreaming, if (message.toolCalls)).
Message(id, role, agent, content, chunks, streaming) ==
  [id |-> id, role |-> role, agent |-> agent, content |-> content,
   contentChunks |-> chunks, toolCalls |-> <<>>, isStreaming |-> streaming,
   finishReason |-> None]

\* nanoid(): an id no message has yet.
nanoid(s) ==
  LocalIds[Cardinality({k \in 1..Len(LocalIds) : LocalIds[k] \in Range(s.messageIds)}) + 1]

LocalCount(s) == Cardinality({id \in Range(s.messageIds) : id \notin ServerIds})

\* --------------------------------------------------------------- store
InitStore ==
  [responding |-> FALSE,
   messageIds |-> <<>>,
   messages |-> EmptyMap,
   messageKeys |-> <<>>,
   researchIds |-> <<>>,
   researchPlanIds |-> EmptyMap,
   researchReportIds |-> EmptyMap,
   researchActivityIds |-> EmptyMap,
   ongoingResearchId |-> None,
   openResearchId |-> None]

\* useStore's own appendMessage.
storeAppendMessage(s, message) ==
  [s EXCEPT !.messageIds = Append(@, message.id),
            !.messages = MapSet(@, message.id, message),
            !.messageKeys = KeysSet(@, message.id)]

\* useStore's own updateMessage.
storeUpdateMessage(s, message) ==
  [s EXCEPT !.messages = MapSet(@, message.id, message),
            !.messageKeys = KeysSet(@, message.id)]

storeOpenResearch(s, researchId) == [s EXCEPT !.openResearchId = researchId]

storeCloseResearch(s) == [s EXCEPT !.openResearchId = None]

setOngoingResearch(s, researchId) == [s EXCEPT !.ongoingResearchId = researchId]

setResponding(s, value) == [s EXCEPT !.responding = value]

\* existsMessage that knows a message only while it is streaming.
existsMessageWhileStreaming(s, id) ==
  id \in Range(s.messageIds) /\ id \in DOMAIN s.messages /\ s.messages[id].isStreaming

existsMessage(s, id) == id \in Range(s.messageIds)

\* messages.get(id) is undefined exactly when hasMessage is false; getMessage
\* is read only where it is defined.
hasMessage(s, id) == id \in DOMAIN s.messages

getMessage(s, id) == s.messages[id]

getOngoingResearchId(s) == s.ongoingResearchId

\* findMessageByToolCallId without the reverse(): the oldest declaring message.
findOldestByToolCallId(s, toolCallId) ==
  LET values == [k \in 1..Len(s.messageKeys) |-> s.messages[s.messageKeys[k]]]
  IN  findDeclaring(values, toolCallId)

\* Array.from(messages.values()).reverse().find(...): the Map is walked from
\* its last key to its first. The id of the message found, or None.
findMessageByToolCallId(s, toolCallId) ==
  LET values == [k \in 1..Len(s.messageKeys) |-> s.messages[s.messageKeys[k]]]
  IN  findDeclaring(Reverse(values), toolCallId)

\* ------------------------------------------------------ research grouping
IsResearchAgent(agent) == agent \in {"coder", "reporter", "researcher"}

\* The planner message appendResearch's backward scan of messageIds stops at:
\* its id, or None when the scan finds none (planMessage stays undefined).
planMessageOf(s) ==
  LET ids == Reverse(s.messageIds)
      hits == {k \in 1..Len(ids) :
                 hasMessage(s, ids[k]) /\ getMessage(s, ids[k]).agent = "planner"}
  IN  IF hits = {} THEN None ELSE ids[CHOOSE k \in hits : \A j \in hits : k <= j]

\* An appendResearch that goes on without a plan message (planMessage?.id).
appendResearchToleratesNoPlan(s) == FALSE

\* planMessage!.id on an undefined planMessage: a TypeError.
appendResearchThrows(s) == planMessageOf(s) = None

\* appendResearch with a forward scan: the oldest planner message is taken.
appendResearchOldestPlan(s, researchId) ==
  LET hits == {k \in 1..Len(s.messageIds) :
                 getMessage(s, s.messageIds[k]).agent = "planner"}
      planId == s.messageIds[CHOOSE k \in hits : \A j \in hits : k <= j]
  IN  [s EXCEPT !.ongoingResearchId = researchId,
                !.researchIds = Append(@, researchId),
                !.researchPlanIds = MapSet(@, researchId, planId),
                !.researchActivityIds = MapSet(@, researchId, <<planId, researchId>>)]

appendResearch(s, researchId) ==
  LET planId == planMessageOf(s)
  IN  [s EXCEPT !.ongoingResearchId = researchId,
                !.researchIds = Append(@, researchId),
                !.researchPlanIds = MapSet(@, researchId, planId),
                !.researchActivityIds = MapSet(@, researchId, <<planId, researchId>>)]

\* appendResearchActivity that records a reporter message as the report
\* without putting it on the activity list.
appendResearchActivityReportOnly(s, message) ==
  LET researchId == getOngoingResearchId(s)
  IN  IF researchId = None THEN s
      ELSE
        LET current == s.researchActivityIds[researchId]
        IN  IF message.agent = "reporter"
            THEN [s EXCEPT !.researchReportIds = MapSet(@, researchId, message.id)]
            ELSE IF message.id \notin Range(current)
            THEN [s EXCEPT !.researchActivityIds =
                    MapSet(@, researchId, Append(current, message.id))]
            ELSE s

\* appendResearchActivity without its includes test: the id is appended
\* whether or not the list has it.
appendResearchActivityAlways(s, message) ==
  LET researchId == getOngoingResearchId(s)
  IN  IF researchId = None THEN s
      ELSE
        LET current == s.researchActivityIds[researchId]
            s1 == [s EXCEPT !.researchActivityIds =
                     MapSet(@, researchId, Append(current, message.id))]
        IN  IF message.agent = "reporter"
            THEN [s1 EXCEPT !.researchReportIds = MapSet(@, researchId, message.id)]
            ELSE s1

appendResearchActivity(s, message) ==
  LET researchId == getOngoingResearchId(s)
  IN  IF researchId = None THEN s
      ELSE
        LET current == s.researchActivityIds[researchId]
            s1 == IF message.id \notin Range(current)
                  THEN [s EXCEPT !.researchActivityIds =
                          MapSet(@, researchId, Append(current, message.id))]
                  ELSE s
        IN  IF message.agent = "reporter"
            THEN [s1 EXCEPT !.researchReportIds = MapSet(@, researchId, message.id)]
            ELSE s1

\* The module-level appendMessage throws exactly when it has to open a
\* research and appendResearch throws.
appendMessageThrows(s, message) ==
  /\ IsResearchAgent(message.agent)
  /\ getOngoingResearchId(s) = None
  /\ appendResearchThrows(s)

\* The module-level appendMessage (read only where it does not throw).
appendMessage(s, message) ==
  LET s1 == IF IsResearchAgent(message.agent)
            THEN LET s0 == IF getOngoingResearchId(s) = None
                           THEN storeOpenResearch(appendResearch(s, message.id), message.id)
                           ELSE s
                 IN  appendResearchActivity(s0, message)
            ELSE s
  IN  storeAppendMessage(s1, message)

\* The states the module-level appendMessage publishes, in order, one per
\* call it makes that sets the store (zustand notifies its subscribers on
\* each): after appendResearch, after openResearch, after
\* appendResearchActivity, and last after the store's appendMessage. The
\* first three are there for a coder, reporter or researcher message only,
\* and repeat the state before them when the call is skipped.
appendMessageSnapshots(s, message) ==
  IF IsResearchAgent(message.agent)
  THEN LET opens == getOngoingResearchId(s) = None
           s0 == IF opens THEN appendResearch(s, message.id) ELSE s
           s1 == IF opens THEN storeOpenResearch(s0, message.id) ELSE s0
           s2 == appendResearchActivity(s1, message)
       IN  <<s0, s1, s2, storeAppendMessage(s2, message)>>
  ELSE <<storeAppendMessage(s, message)>>

\* The module-level updateMessage.
updateMessage(s, message) ==
  LET s1 == IF /\ getOngoingResearchId(s) # None
               /\ message.agent = "reporter"
               /\ ~message.isStreaming
            THEN setOngoingResearch(s, None)
            ELSE s
  IN  storeUpdateMessage(s1, message)

\* ------------------------------------------------------------- events
\* A ChatEvent {type, data}. data.content is one fragment or NoFrag,
\* data.tool_calls the ids of the tool calls it declares, data.finish_reason
\* a reason or None.
Event(type, id, agent, content, toolCalls, toolCallId, finish) ==
  [type |-> type, id |-> id, agent |-> agent, role |-> "assistant",
   content |-> content, tool_calls |-> toolCalls, tool_call_id |-> toolCallId,
   finish_reason |-> finish]

\* The value of the loop variable before the first event and after the loop.
NoEvent == Event("none", None, None, NoFrag, <<>>, None, None)

\* Message chunks of the given agents: each carries one fragment, or one of
\* the given finish reasons, or one of the given tool calls.
ChunkEvents(agents, finishes, toolCallIds) ==
  {Event("message_chunk", id, agent, content, <<>>, None, None) :
     id \in ServerIds, agent \in agents, content \in Frags}
  \cup
  {Event("message_chunk", id, agent, NoFrag, <<>>, None, finish) :
     id \in ServerIds, agent \in agents, finish \in finishes}
  \cup
  {Event("message_chunk", id, agent, NoFrag, <<tc>>, None, None) :
     id \in ServerIds, agent \in agents, tc \in toolCallIds}

ResultEvents(toolCallIds) ==
  {Event("tool_call_result", id, None, ResultText, <<>>, tc, None) :
     id \in ServerIds, tc \in toolCallIds}

\* The streams of Spec: the agents of a research, text and a normal finish.
ResearchEvents ==
  ChunkEvents({"planner", "researcher", "coder", "reporter"}, {"stop"}, {})

\* The streams of SpecTools: tool calls and their results.
ToolEvents ==
  ChunkEvents({"planner", "reporter"}, {"stop"}, ToolCallIds)
  \cup ResultEvents(ToolCallIds)

\* The streams of SpecText: planner text in two different fragments.
TextFrags == {<<"a">>, <<"b">>}

TextEvents ==
  {Event("message_chunk", id, "planner", content, <<>>, None, None) :
     id \in ServerIds, content \in TextFrags}
  \cup
  {Event("message_chunk", id, "planner", NoFrag, <<>>, None, "stop") :
     id \in ServerIds}

\* Events of a type the core does not know, carrying an id and an agent as
\* every event does.
UnknownEvents ==
  {Event("unknown", id, agent, NoFrag, <<>>, None, None) :
     id \in ServerIds, agent \in {"planner", "reporter"}}

\* The streams of SpecInterrupt: messages that end in an interrupt.
InterruptEvents ==
  ChunkEvents({"planner", "reporter"}, FinishReasons, {})

\* The merge of one event into a message.
mergeMessage(message, event) ==
  LET withText ==
        IF event.type = "message_chunk" /\ event.content # NoFrag
        THEN [message EXCEPT !.content = @ \o event.content,
                             !.contentChunks = Append(@, event.content)]
        ELSE message
      withCalls ==
        IF event.type = "message_chunk" /\ event.tool_calls # <<>>
        THEN [withText EXCEPT !.toolCalls =
                [k \in 1..Len(event.tool_calls) |->
                   [id |-> event.tool_calls[k], result |-> NoResult]]]
        ELSE withText
      withResult ==
        IF event.type = "tool_call_result"
        THEN [withCalls EXCEPT !.toolCalls =
                [k \in 1..Len(@) |->
                   IF @[k].id = event.tool_call_id
                   THEN [@[k] EXCEPT !.result = event.content]
                   ELSE @[k]]]
        ELSE withCalls
  IN  IF event.type \in {"message_chunk", "tool_call_result"}
         /\ event.finish_reason # None
      THEN [withResult EXCEPT !.isStreaming = FALSE,
                              !.finishReason = event.finish_reason]
      ELSE withResult

\* ---------------------------------------------------------- sendMessage
\* The message the loop body creates for an event with an unknown id.
newMessage(event) ==
  Message(event.id, event.role, event.agent, <<>>, <<>>, TRUE)

\* createsMessage without the test of the event's type: a tool_call_result
\* with an unknown id creates a message too.
createsMessageAnyType(s, event) ==
  ~existsMessage(s, event.id)

\* createsMessage without the existsMessage test.
createsMessageAlways(s, event) ==
  event.type # "tool_call_result"

\* Whether the loop body creates a message for the event.
createsMessage(s, event) ==
  event.type # "tool_call_result" /\ ~existsMessage(s, event.id)

\* Whether the loop body throws on the event.
eventThrows(s, event) ==
  createsMessage(s, event) /\ appendMessageThrows(s, newMessage(event))

\* The id of the message the loop body merges the event into, or None when
\* `message` is still undefined after `message ??= getMessage(messageId)`.
\* s is the store after the append, if any.
targetOf(s, event) ==
  LET found == IF event.type = "tool_call_result"
               THEN findMessageByToolCallId(s, event.tool_call_id)
               ELSE None
  IN  IF found # None THEN found
      ELSE IF hasMessage(s, event.id) THEN event.id
      ELSE None

\* The for-await body with the merge in an else branch of the creation: the
\* event that creates a message is not merged into it.
processEventCreatedNotMerged(s, event) ==
  IF createsMessage(s, event)
  THEN appendMessage(s, newMessage(event))
  ELSE LET target == targetOf(s, event)
       IN  IF target = None THEN s
           ELSE updateMessage(s, mergeMessage(getMessage(s, target), event))

\* One run of the for-await body (read only where it does not throw).
processEvent(s, event) ==
  LET s1 == IF createsMessage(s, event) THEN appendMessage(s, newMessage(event)) ELSE s
      target == targetOf(s1, event)
  IN  IF target = None THEN s1
      ELSE updateMessage(s1, mergeMessage(getMessage(s1, target), event))

\* catchAndFinally without setOngoingResearch(null): the session stays ongoing.
catchKeepsOngoing(s, mid) ==
  LET s1 == IF mid # None /\ hasMessage(s, mid) /\ getMessage(s, mid).isStreaming
            THEN storeUpdateMessage(s, [getMessage(s, mid) EXCEPT !.isStreaming = FALSE])
            ELSE s
  IN  setResponding(s1, FALSE)

\* catchAndFinally without the finally block: responding is left as it is.
catchWithoutFinally(s, mid) ==
  LET s1 == IF mid # None /\ hasMessage(s, mid) /\ getMessage(s, mid).isStreaming
            THEN storeUpdateMessage(s, [getMessage(s, mid) EXCEPT !.isStreaming = FALSE])
            ELSE s
  IN  setOngoingResearch(s1, None)

\* A catch block that takes the message still streaming out of the store.
catchRollsBack(s, mid) ==
  LET drop == mid # None /\ hasMessage(s, mid) /\ getMessage(s, mid).isStreaming
      s1 == IF drop
            THEN [s EXCEPT !.messageIds = SelectSeq(@, LAMBDA id : id # mid),
                           !.messageKeys = SelectSeq(@, LAMBDA id : id # mid),
                           !.messages = [id \in DOMAIN @ \ {mid} |-> @[id]]]
            ELSE s
  IN  setResponding(setOngoingResearch(s1, None), FALSE)

\* The catch block followed by the finally block; mid is the invocation's
\* messageId.
catchAndFinally(s, mid) ==
  LET s1 == IF mid # None /\ hasMessage(s, mid) /\ getMessage(s, mid).isStreaming
            THEN storeUpdateMessage(s, [getMessage(s, mid) EXCEPT !.isStreaming = FALSE])
            ELSE s
  IN  setResponding(setOngoingResearch(s1, None), FALSE)

\* How an invocation has ended: its loop ran out ("done"), or its catch block
\* ran ("failed"), on a failure as on an abort, which the code does not tell
\* apart.
Settled == {"done", "failed"}

\* sendMessage up to the first await without the test content != null: a
\* user message is appended on a replay too.
SendAlwaysAppends(i, withContent) ==
  /\ pc[i] # "streaming"
  /\ nSends < MaxSends
  /\ nSends' = nSends + 1
  /\ LocalCount(store) < MaxLocal
  /\ store' = setResponding(
       appendMessage(store,
         Message(nanoid(store), "user", None, UserText, <<UserText>>, FALSE)), TRUE)
  /\ pc' = [pc EXCEPT ![i] = "streaming"]
  /\ messageId' = [messageId EXCEPT ![i] = None]
  /\ created' = [created EXCEPT ![i] = {}]
  /\ invToasts' = [invToasts EXCEPT ![i] = 0]
  /\ lastEvent' = [lastEvent EXCEPT ![i] = NoEvent]
  /\ userMessageId' = [userMessageId EXCEPT ![i] =
       IF withContent THEN nanoid(store) ELSE None]
  /\ UNCHANGED <<podcasts, podLog, nEvents>>
  /\ UNCHANGED mavVars

\* sendMessage(content, ...) up to the first await; withContent is whether
\* content is given (content != null).
Send(i, withContent) ==
  /\ pc[i] # "streaming"
  /\ nSends < MaxSends
  /\ nSends' = nSends + 1
  /\ withContent => LocalCount(store) < MaxLocal
  /\ store' = setResponding(
       IF withContent
       THEN appendMessage(store,
              Message(nanoid(store), "user", None, UserText, <<UserText>>, FALSE))
       ELSE store, TRUE)
  /\ pc' = [pc EXCEPT ![i] = "streaming"]
  /\ messageId' = [messageId EXCEPT ![i] = None]
  /\ created' = [created EXCEPT ![i] = {}]
  /\ invToasts' = [invToasts EXCEPT ![i] = 0]
  /\ lastEvent' = [lastEvent EXCEPT ![i] = NoEvent]
  /\ userMessageId' = [userMessageId EXCEPT ![i] =
       IF withContent THEN nanoid(store) ELSE None]
  /\ UNCHANGED <<podcasts, podLog, nEvents>>
  /\ UNCHANGED mavVars

\* The ids an event may carry: one a message of the store has, or the first
\* one not used yet.
usableIds(s) ==
  LET fresh == {k \in 1..Len(ServerIdSeq) : ServerIdSeq[k] \notin Range(s.messageIds)}
  IN  (Range(s.messageIds) \cap ServerIds) \cup
      (IF fresh = {} THEN {}
       ELSE {ServerIdSeq[CHOOSE k \in fresh : \A j \in fresh : k <= j]})

\* The stream yields an event and the loop body runs on it; when the body
\* throws, the catch and finally blocks run at once.
StreamEvent(i, event) ==
  /\ pc[i] = "streaming"
  /\ nEvents < MaxEvents
  /\ event.id \in usableIds(store)
  /\ nEvents' = nEvents + 1
  /\ IF eventThrows(store, event)
     THEN /\ store' = catchAndFinally(store, event.id)
          /\ pc' = [pc EXCEPT ![i] = "failed"]
          /\ messageId' = [messageId EXCEPT ![i] = None]
          /\ invToasts' = [invToasts EXCEPT ![i] = @ + 1]
          /\ lastEvent' = [lastEvent EXCEPT ![i] = event]
          /\ UNCHANGED created
     ELSE /\ store' = processEvent(store, event)
          /\ messageId' = [messageId EXCEPT ![i] = event.id]
          /\ created' = [created EXCEPT ![i] =
               IF createsMessage(store, event) THEN @ \cup {event.id} ELSE @]
          /\ lastEvent' = [lastEvent EXCEPT ![i] = event]
          /\ UNCHANGED <<pc, invToasts>>
  /\ UNCHANGED <<podcasts, podLog, nSends, userMessageId>>
  /\ UNCHANGED mavVars

\* The stream is exhausted: the loop ends and the finally block runs.
StreamEnd(i) ==
  /\ pc[i] = "streaming"
  /\ store' = setResponding(store, FALSE)
  /\ pc' = [pc EXCEPT ![i] = "done"]
  /\ messageId' = [messageId EXCEPT ![i] = None]
  /\ lastEvent' = [lastEvent EXCEPT ![i] = NoEvent]
  /\ UNCHANGED <<created, invToasts, podcasts, podLog, nEvents, nSends, userMessageId>>
  /\ UNCHANGED mavVars

\* Awaiting the next event throws (a transport or parse failure).
StreamThrows(i) ==
  /\ pc[i] = "streaming"
  /\ store' = catchAndFinally(store, messageId[i])
  /\ pc' = [pc EXCEPT ![i] = "failed"]
  /\ messageId' = [messageId EXCEPT ![i] = None]
  /\ invToasts' = [invToasts EXCEPT ![i] = @ + 1]
  /\ lastEvent' = [lastEvent EXCEPT ![i] = NoEvent]
  /\ UNCHANGED <<created, podcasts, podLog, nEvents, nSends, userMessageId>>
  /\ UNCHANGED mavVars

\* The caller aborts the signal: awaiting the next event rejects.
Abort(i) ==
  /\ pc[i] = "streaming"
  /\ store' = catchAndFinally(store, messageId[i])
  /\ pc' = [pc EXCEPT ![i] = "failed"]
  /\ messageId' = [messageId EXCEPT ![i] = None]
  /\ invToasts' = [invToasts EXCEPT ![i] = @ + 1]
  /\ lastEvent' = [lastEvent EXCEPT ![i] = NoEvent]
  /\ UNCHANGED <<created, podcasts, podLog, nEvents, nSends, userMessageId>>
  /\ UNCHANGED mavVars

\* ------------------------------------------------------------ accessors
\* The selector of useLastInterruptMessage with a backward scan for an
\* interrupted message in place of the look at the last message.
useLastInterruptScan(s) ==
  LET hits == {k \in 1..Len(s.messageIds) :
                 s.messages[s.messageIds[k]].finishReason = "interrupt"}
  IN  IF Len(s.messageIds) >= 2 /\ hits # {}
      THEN s.messageIds[CHOOSE k \in hits : \A j \in hits : k >= j]
      ELSE None

\* The selector of useLastInterruptMessage: the id of the message it
\* returns, or None where it returns null.
useLastInterruptMessage(s) ==
  IF Len(s.messageIds) >= 2
  THEN LET lastId == s.messageIds[Len(s.messageIds)]
       IN  IF hasMessage(s, lastId) /\ getMessage(s, lastId).finishReason = "interrupt"
           THEN lastId
           ELSE None
  ELSE None

\* The selector of useLastFeedbackMessageId returning messageIds[length - 1].
useLastFeedbackReturnsLast(s) ==
  IF Len(s.messageIds) >= 2
  THEN LET lastId == s.messageIds[Len(s.messageIds)]
       IN  IF hasMessage(s, lastId) /\ getMessage(s, lastId).finishReason = "interrupt"
           THEN lastId
           ELSE None
  ELSE None

\* The selector of useLastFeedbackMessageId: an id, or None for null.
useLastFeedbackMessageId(s) ==
  IF Len(s.messageIds) >= 2
  THEN LET lastId == s.messageIds[Len(s.messageIds)]
       IN  IF hasMessage(s, lastId) /\ getMessage(s, lastId).finishReason = "interrupt"
           THEN s.messageIds[Len(s.messageIds) - 1]
           ELSE None
  ELSE None

\* ------------------------------------------------ input box and plan card
\* InputBox's handleSendMessage sends only while the store is not responding
\* (while it is, the same button cancels).
InputSend(i) ==
  /\ ~store.responding
  /\ Send(i, TRUE)

\* The Accept button of a PlanCard is rendered and enabled: the card's planner
\* message is not streaming, the last message is an interrupt (whose options
\* the button is one of) and the card's message is the one awaiting feedback.
\* The store's responding flag is not looked at.
planAcceptEnabled(s) ==
  /\ useLastInterruptMessage(s) # None
  /\ useLastFeedbackMessageId(s) # None
  /\ hasMessage(s, useLastFeedbackMessageId(s))
  /\ getMessage(s, useLastFeedbackMessageId(s)).agent = "planner"
  /\ ~getMessage(s, useLastFeedbackMessageId(s)).isStreaming

\* A click on Accept: handleAccept calls handleSend, which calls sendMessage
\* with a greeting and interruptFeedback "accepted".
AcceptPlan(i) ==
  /\ planAcceptEnabled(store)
  /\ Send(i, TRUE)

\* ------------------------------------------------------- research panel
OpenResearch(researchId) ==
  /\ researchId \in Range(store.researchIds)
  /\ store.openResearchId # researchId
  /\ store' = storeOpenResearch(store, researchId)
  /\ UNCHANGED <<pc, messageId, created, invToasts, podcasts, podLog, nEvents, nSends,
               lastEvent, userMessageId>>
  /\ UNCHANGED mavVars

CloseResearch ==
  /\ store.openResearchId # None
  /\ store' = storeCloseResearch(store)
  /\ UNCHANGED <<pc, messageId, created, invToasts, podcasts, podLog, nEvents, nSends,
               lastEvent, userMessageId>>
  /\ UNCHANGED mavVars

\* ----------------------------------------------------- report editing
\* What the user makes of the report in the editor.
EditedTexts == {<<"e">>}

\* ResearchReportBlock shows the editor for the report of the open research
\* when the report is completed: not streaming and not empty.
reportEditorShown(s) ==
  /\ s.openResearchId # None
  /\ s.openResearchId \in DOMAIN s.researchReportIds
  /\ hasMessage(s, s.researchReportIds[s.openResearchId])
  /\ ~getMessage(s, s.researchReportIds[s.openResearchId]).isStreaming
  /\ getMessage(s, s.researchReportIds[s.openResearchId]).content # <<>>

\* handleMarkdownChange: the editor reports a changed text.
EditReport(markdown) ==
  /\ reportEditorShown(store)
  /\ LET message == getMessage(store, store.researchReportIds[store.openResearchId])
     IN  /\ message.content # markdown
         /\ store' = [store EXCEPT !.messages =
                        MapSet(@, message.id, [message EXCEPT !.content = markdown])]
  /\ UNCHANGED <<pc, messageId, created, invToasts, podcasts, podLog, nEvents, nSends,
               lastEvent, userMessageId>>
  /\ UNCHANGED mavVars

\* ------------------------------------------------------ listenToPodcast
\* JSON.stringify of an object given as its <<key, value>> pairs in order:
\* the text, one token per brace, key and value.
JSONstringify(pairs) ==
  LET Body[k \in 0..Len(pairs)] ==
        IF k = 0 THEN <<>> ELSE Body[k - 1] \o <<pairs[k][1], pairs[k][2]>>
  IN  <<"{">> \o Body[Len(pairs)] \o <<"}">>

\* parseJSON(text, {title: "Untitled"}).title: the value of the text's title
\* key when the text is an object holding one, else the fallback's.
parseJSONTitle(text) ==
  LET keys == {k \in 2..(Len(text) - 2) : k % 2 = 0 /\ text[k] = "title"}
  IN  IF Len(text) >= 2 /\ Len(text) % 2 = 0
         /\ text[1] = "{" /\ text[Len(text)] = "}" /\ keys # {}
      THEN text[(CHOOSE k \in keys : \A j \in keys : k >= j) + 1]
      ELSE "Untitled"

\* The render guard of the button without its !reportStreaming conjunct.
podcastButtonIgnoresStreaming(s) ==
  /\ s.openResearchId # None
  /\ s.openResearchId \in DOMAIN s.researchReportIds

\* The Generate-podcast button of ResearchBlock is rendered for the open
\* research when it has a report that is not streaming.
podcastButtonShown(s) ==
  LET researchId == s.openResearchId
  IN  /\ researchId # None
      /\ researchId \in DOMAIN s.researchReportIds
      /\ LET reportId == s.researchReportIds[researchId]
         IN  ~(hasMessage(s, reportId) /\ getMessage(s, reportId).isStreaming)

\* Whether listenToPodcast(researchId) goes past its two guards.
podcastStarts(s, researchId) ==
  /\ researchId \in DOMAIN s.researchPlanIds
  /\ researchId \in DOMAIN s.researchReportIds
  /\ hasMessage(s, s.researchReportIds[researchId])
  /\ getMessage(s, s.researchReportIds[researchId]).content # <<>>

podcastObject(s, researchId) ==
  <<<<"title", parseJSONTitle(getMessage(s, s.researchPlanIds[researchId]).content)>>,
    <<"researchId", researchId>>>>

\* The store after listenToPodcast's two appends.
podcastAppends(s, researchId) ==
  LET s1 == appendMessage(s,
              Message(nanoid(s), "user", None, PodcastRequest, <<>>, FALSE))
  IN  appendMessage(s1,
        Message(nanoid(s1), "assistant", "podcast",
                JSONstringify(podcastObject(s, researchId)), <<>>, TRUE))

\* A click on the Generate-podcast button: listenToPodcast(openResearchId)
\* up to its await of generatePodcast.
ListenToPodcast ==
  /\ podcastButtonShown(store)
  /\ LET researchId == store.openResearchId
     IN  IF podcastStarts(store, researchId)
         THEN /\ LocalCount(store) + 2 <= MaxLocal
              /\ store' = podcastAppends(store, researchId)
              /\ LET podCastMessageId == nanoid(appendMessage(store,
                       Message(nanoid(store), "user", None, PodcastRequest, <<>>, FALSE)))
                 IN  /\ podcasts' = podcasts \cup
                          {[id |-> podCastMessageId,
                            podcastObject |-> podcastObject(store, researchId)]}
                     /\ podLog' = MapSet(podLog, podCastMessageId,
                                         [writes |-> 0, toasts |-> 0, failed |-> FALSE])
         ELSE UNCHANGED <<store, podcasts, podLog>>
  /\ UNCHANGED <<pc, messageId, created, invToasts, nEvents, nSends, lastEvent, userMessageId>>
  /\ UNCHANGED mavVars

\* podcastWrite starting from the messages Map as it was when the workflow
\* appended its podcast message, not from the current one: the messages set
\* since are lost.
podcastWriteStale(s, podCastMessageId, content) ==
  LET at == CHOOSE k \in 1..Len(s.messageKeys) : s.messageKeys[k] = podCastMessageId
      old == {s.messageKeys[k] : k \in 1..at}
  IN  [s EXCEPT !.messages =
         [id \in old |->
            IF id = podCastMessageId
            THEN [s.messages[id] EXCEPT !.content = content, !.isStreaming = FALSE]
            ELSE s.messages[id]],
                !.messageKeys = SubSeq(@, 1, at)]

\* The write both continuations make: the podcast message with a new content
\* and isStreaming false.
podcastWrite(s, podCastMessageId, content) ==
  [s EXCEPT !.messages = MapSet(@, podCastMessageId,
              [s.messages[podCastMessageId] EXCEPT !.content = content,
                                                   !.isStreaming = FALSE]),
            !.messageKeys = KeysSet(@, podCastMessageId)]

\* A success continuation that writes the audio url and leaves isStreaming
\* as it was.
PodcastSucceedsStillStreaming(p) ==
  /\ p \in podcasts
  /\ store' = [store EXCEPT !.messages = MapSet(@, p.id,
                 [store.messages[p.id] EXCEPT !.content =
                    JSONstringify(Append(p.podcastObject, <<"audioUrl", AudioUrl>>))]),
                            !.messageKeys = KeysSet(@, p.id)]
  /\ podcasts' = podcasts \ {p}
  /\ podLog' = [podLog EXCEPT ![p.id].writes = @ + 1]
  /\ UNCHANGED <<pc, messageId, created, invToasts, nEvents, nSends, lastEvent, userMessageId>>
  /\ UNCHANGED mavVars

\* generatePodcast resolves with an audio url.
PodcastSucceeds(p) ==
  /\ p \in podcasts
  /\ store' = podcastWrite(store, p.id,
                JSONstringify(Append(p.podcastObject, <<"audioUrl", AudioUrl>>)))
  /\ podcasts' = podcasts \ {p}
  /\ podLog' = [podLog EXCEPT ![p.id].writes = @ + 1]
  /\ UNCHANGED <<pc, messageId, created, invToasts, nEvents, nSends, lastEvent, userMessageId>>
  /\ UNCHANGED mavVars

\* generatePodcast rejects and the catch block has no return: the write after
\* the try block follows, with audioUrl undefined, which JSON.stringify drops.
PodcastFailsFallsThrough(p) ==
  /\ p \in podcasts
  /\ store' = podcastWrite(
                podcastWrite(store, p.id,
                  JSONstringify(Append(p.podcastObject, <<"error", ErrorText>>))),
                p.id, JSONstringify(p.podcastObject))
  /\ podcasts' = podcasts \ {p}
  /\ podLog' = [podLog EXCEPT ![p.id].writes = @ + 2, ![p.id].toasts = @ + 1,
                              ![p.id].failed = TRUE]
  /\ UNCHANGED <<pc, messageId, created, invToasts, nEvents, nSends, lastEvent, userMessageId>>
  /\ UNCHANGED mavVars

\* generatePodcast rejects: the catch block, which returns.
PodcastFails(p) ==
  /\ p \in podcasts
  /\ store' = podcastWrite(store, p.id,
                JSONstringify(Append(p.podcastObject, <<"error", ErrorText>>)))
  /\ podcasts' = podcasts \ {p}
  /\ podLog' = [podLog EXCEPT ![p.id].writes = @ + 1, ![p.id].toasts = @ + 1,
                              ![p.id].failed = TRUE]
  /\ UNCHANGED <<pc, messageId, created, invToasts, nEvents, nSends, lastEvent, userMessageId>>
  /\ UNCHANGED mavVars

\* ------------------------------------------- multi-agent visualization
\* The most play() calls that await their sleep at once.
MaxLoops == 3

MavNodeIds ==
  {"Start", "Coordinator", "Planner", "Reporter", "HumanFeedback",
   "ResearchTeam", "Researcher", "Coder", "End"}

MavEdgeIds ==
  {"Start->Coordinator", "Coordinator->Planner", "Planner->Reporter",
   "Planner->HumanFeedback", "HumanFeedback->Planner",
   "HumanFeedback->ResearchTeam", "Reporter->End", "ResearchTeam->Researcher",
   "ResearchTeam->Coder", "ResearchTeam->Planner", "Researcher->ResearchTeam",
   "Coder->ResearchTeam"}

\* playbook.steps: activeNodes and activeEdges of each step; the description
\* of a step is held as the step's position.
playbook ==
  <<[activeNodes |-> <<"Start", "Coordinator">>,
     activeEdges |-> <<"Start->Coordinator">>],
    [activeNodes |-> <<"Coordinator", "Planner">>,
     activeEdges |-> <<"Coordinator->Planner">>],
    [activeNodes |-> <<"Planner", "HumanFeedback">>,
     activeEdges |-> <<"Planner->HumanFeedback">>],
    [activeNodes |-> <<"HumanFeedback", "Planner">>,
     activeEdges |-> <<"HumanFeedback->Planner">>],
    [activeNodes |-> <<"Planner", "HumanFeedback", "ResearchTeam">>,
     activeEdges |-> <<"Planner->HumanFeedback", "HumanFeedback->ResearchTeam",
                       "ResearchTeam->HumanFeedback">>],
    [activeNodes |-> <<"ResearchTeam", "Researcher">>,
     activeEdges |-> <<"ResearchTeam->Researcher", "Researcher->ResearchTeam">>],
    [activeNodes |-> <<"ResearchTeam", "Coder">>,
     activeEdges |-> <<"ResearchTeam->Coder", "Coder->ResearchTeam">>],
    [activeNodes |-> <<"ResearchTeam", "Planner">>,
     activeEdges |-> <<"ResearchTeam->Planner">>],
    [activeNodes |-> <<"Reporter", "Planner">>,
     activeEdges |-> <<"Planner->Reporter">>],
    [activeNodes |-> <<"End", "Reporter">>,
     activeEdges |-> <<"Reporter->End">>]>>

\* The graph the store starts with: no node has data.active or a step
\* description (held as 0), every edge is animated.
graph ==
  [nodes |-> [id \in MavNodeIds |-> [active |-> FALSE, stepDescription |-> 0]],
   edges |-> [id \in MavEdgeIds |-> [animated |-> TRUE]]]

InitMAV == [graph |-> graph, activeStepIndex |-> -1, playing |-> FALSE]

\* Array.prototype.indexOf: the first position of id in ids counted from 0,
\* or -1.
indexOf(ids, id) ==
  LET hits == {k \in 1..Len(ids) : ids[k] = id}
  IN  IF hits = {} THEN -1 ELSE (CHOOSE k \in hits : \A j \in hits : k <= j) - 1

\* activateStep(stepIndex); stepIndex counts from 0.
activateStep(s, stepIndex) ==
  LET step == playbook[stepIndex + 1]
  IN  [s EXCEPT
         !.activeStepIndex = stepIndex,
         !.graph =
           [nodes |-> [id \in DOMAIN s.graph.nodes |->
                         [active |-> id \in Range(step.activeNodes),
                          stepDescription |->
                            IF indexOf(step.activeNodes, id) = Len(step.activeNodes) - 1
                            THEN stepIndex + 1 ELSE 0]],
            edges |-> [id \in DOMAIN s.graph.edges |->
                         [animated |-> id \in Range(step.activeEdges)]]]]

\* nextStep with its wrap one step early.
nextStepWrapsEarly(s) ==
  activateStep(s, IF s.activeStepIndex >= Len(playbook) - 2
                  THEN 0 ELSE s.activeStepIndex + 1)

nextStep(s) ==
  activateStep(s, IF s.activeStepIndex >= Len(playbook) - 1
                  THEN 0 ELSE s.activeStepIndex + 1)

prevStep(s) ==
  activateStep(s, IF s.activeStepIndex <= 0
                  THEN Len(playbook) - 1 ELSE s.activeStepIndex - 1)

pause(s) == [s EXCEPT !.playing = FALSE]

stop(s) == [s EXCEPT !.playing = FALSE, !.activeStepIndex = -1, !.graph = graph]

\* Whether play() stops and returns: it finds the last step active while
\* playing.
playStops(s) == s.activeStepIndex >= Len(playbook) - 1 /\ s.playing

\* play() up to its await of sleep(3000), where it does not stop.
playAdvances(s) == nextStep([s EXCEPT !.playing = TRUE])

\* A call of play() from a handler: it advances and awaits its sleep, or
\* stops.
Play ==
  IF playStops(mav)
  THEN mav' = stop(mav) /\ UNCHANGED loops
  ELSE /\ loops < MaxLoops
       /\ mav' = playAdvances(mav)
       /\ loops' = loops + 1

\* A click on the Play / Pause button: togglePlay().
TogglePlay ==
  /\ IF mav.playing
     THEN mav' = pause(mav) /\ UNCHANGED loops
     ELSE Play
  /\ UNCHANGED <<hasPlayed, chatVars>>

\* The anchor scrolls into view: the observer's onChange starts the play once.
AutoPlay ==
  /\ ~mav.playing
  /\ ~hasPlayed
  /\ hasPlayed' = TRUE
  /\ Play
  /\ UNCHANGED chatVars

\* The sleep of a play() call is over: it reads playing and calls play()
\* again, or returns.
Wake ==
  /\ loops > 0
  /\ IF ~mav.playing
     THEN loops' = loops - 1 /\ UNCHANGED mav
     ELSE IF playStops(mav)
     THEN mav' = stop(mav) /\ loops' = loops - 1
     ELSE mav' = playAdvances(mav) /\ UNCHANGED loops
  /\ UNCHANGED <<hasPlayed, chatVars>>

\* Clicks on the previous-step and next-step buttons and a move of the slider.
PrevStepClick ==
  /\ mav' = prevStep(mav)
  /\ UNCHANGED <<loops, hasPlayed, chatVars>>

NextStepClick ==
  /\ hasPlayed' = TRUE
  /\ mav' = nextStep(mav)
  /\ UNCHANGED <<loops, chatVars>>

SliderChange(stepIndex) ==
  /\ hasPlayed' = TRUE
  /\ mav' = activateStep(mav, stepIndex)
  /\ UNCHANGED <<loops, chatVars>>

\* -------------------------------------------------------- specification
Init ==
  /\ store = InitStore
  /\ pc = [i \in Invs |-> "idle"]
  /\ messageId = [i \in Invs |-> None]
  /\ created = [i \in Invs |-> {}]
  /\ invToasts = [i \in Invs |-> 0]
  /\ podcasts = {}
  /\ podLog = EmptyMap
  /\ nEvents = 0
  /\ nSends = 0
  /\ lastEvent = [i \in Invs |-> NoEvent]
  /\ userMessageId = [i \in Invs |-> None]
  /\ mav = InitMAV
  /\ loops = 0
  /\ hasPlayed = FALSE

\* sendMessage, one invocation at a time (the input box sends only while the
\* store is not responding), over the events of E.
Ingestion(E) ==
  \/ \E withContent \in BOOLEAN : Send(1, withContent)
  \/ \E event \in E : StreamEvent(1, event)
  \/ StreamEnd(1)
  \/ StreamThrows(1)
  \/ Abort(1)

\* The research panel and its Generate-podcast button.
Panel ==
  \/ \E researchId \in ServerIds : OpenResearch(researchId)
  \/ CloseResearch
  \/ ListenToPodcast
  \/ \E p \in podcasts : PodcastSucceeds(p)
  \/ \E p \in podcasts : PodcastFails(p)

Next == Ingestion(ResearchEvents) \/ Panel

Spec == Init /\ [][Next]_vars

NextTools == Ingestion(ToolEvents) \/ Panel

SpecTools == Init /\ [][NextTools]_vars

NextInterrupt == Ingestion(InterruptEvents) \/ Panel

SpecInterrupt == Init /\ [][NextInterrupt]_vars

\* The streams of SpecEdit: a plan and reports.
ReportEvents == ChunkEvents({"planner", "reporter"}, {"stop"}, {})

\* Ingestion, the research panel and the report editor.
NextEdit ==
  \/ Ingestion(ReportEvents)
  \/ Panel
  \/ \E markdown \in EditedTexts : EditReport(markdown)

SpecEdit == Init /\ [][NextEdit]_vars

\* SpecEdit with every generatePodcast call settling: a workflow awaiting its
\* call goes on to one of its two continuations.
PodcastSettles == \E p \in podcasts : PodcastSucceeds(p) \/ PodcastFails(p)

SpecPodcastLive == Init /\ [][NextEdit]_vars /\ WF_vars(PodcastSettles)

\* The streams of SpecAccept: plans and interrupts.
AcceptEvents == ChunkEvents({"planner"}, FinishReasons, {})

\* sendMessage started from the input box and from the plan card: an
\* invocation may start while another has not settled.
NextAccept ==
  \E i \in Invs :
    \/ InputSend(i)
    \/ AcceptPlan(i)
    \/ \E event \in AcceptEvents : StreamEvent(i, event)
    \/ StreamEnd(i)
    \/ StreamThrows(i)

SpecAccept == Init /\ [][NextAccept]_vars

\* sendMessage alone, over streams that hold events of an unknown type.
NextUnknown == Ingestion(ReportEvents \cup UnknownEvents)

SpecUnknown == Init /\ [][NextUnknown]_vars

\* sendMessage alone, over streams of planner text.
NextText == Ingestion(TextEvents)

SpecText == Init /\ [][NextText]_vars

\* The multi-agent visualization: its buttons, its slider, its observer and
\* the play() calls waking from their sleep.
NextMAV ==
  \/ TogglePlay
  \/ AutoPlay
  \/ Wake
  \/ PrevStepClick
  \/ NextStepClick
  \/ \E stepIndex \in 0..(Len(playbook) - 1) : SliderChange(stepIndex)

SpecMAV == Init /\ [][NextMAV]_vars

\* ================================================================ claims

\* C1: every sendMessage invocation ends with responding = false, whether its
\* stream ran out or its catch block ran (a failure during consumption, an
\* abort); with no invocation in flight, responding is false until the next
\* send.
C1_RespondingClearedWhenSettled ==
  (\A i \in Invs : pc[i] # "streaming") => ~store.responding

\* An invocation that received events and then ended in its catch block.
C1_Witness ==
  /\ pc[1] = "failed"
  /\ created[1] # {}
  /\ ~store.responding

\* C2: after an invocation ends by cancellation or failure, no message its
\* events created is still streaming.
C2_NoStreamingAfterFailure ==
  \A i \in Invs :
    pc[i] = "failed" =>
      \A id \in created[i] : ~getMessage(store, id).isStreaming

\* Whether the message declares the tool call.
DeclaresToolCall(message, toolCallId) ==
  \E k \in 1..Len(message.toolCalls) : message.toolCalls[k].id = toolCallId

\* The position in messageIds of the last message that declares the tool
\* call (0 when none does).
LastDeclaring(s, toolCallId) ==
  LET at == {k \in 1..Len(s.messageIds) :
               DeclaresToolCall(s.messages[s.messageIds[k]], toolCallId)}
  IN  IF at = {} THEN 0 ELSE CHOOSE k \in at : \A j \in at : k >= j

\* Whether the step gives the tool call of message id its result.
GetsResult(id, toolCallId) ==
  /\ id \in DOMAIN store.messages
  /\ Len(store'.messages[id].toolCalls) = Len(store.messages[id].toolCalls)
  /\ \E k \in 1..Len(store.messages[id].toolCalls) :
       /\ store.messages[id].toolCalls[k].id = toolCallId
       /\ store'.messages[id].toolCalls[k].id = toolCallId
       /\ store.messages[id].toolCalls[k].result = NoResult
       /\ store'.messages[id].toolCalls[k].result # NoResult

\* C3: a tool_call_result is merged into the message that declares its
\* tool_call_id, the most recently appended one when several do and however
\* many messages came after it, and the event changes no other message.
C3_ResultGoesToLastDeclaring ==
  [][\A id \in ServerIds, toolCallId \in ToolCallIds :
       GetsResult(id, toolCallId) =>
         /\ LastDeclaring(store, toolCallId) # 0
         /\ id = store.messageIds[LastDeclaring(store, toolCallId)]
         /\ store'.messageIds = store.messageIds
         /\ \A other \in DOMAIN store.messages \ {id} :
              store'.messages[other] = store.messages[other]]_vars

\* Two messages declare t1 and a third came after them; the result event,
\* delivered last under the id of the second, went to the second.
C3_Witness ==
  /\ Len(store.messageIds) = 3
  /\ nEvents = 4
  /\ messageId[1] = store.messageIds[2]
  /\ store.messages[store.messageIds[1]].toolCalls = <<[id |-> "t1", result |-> NoResult]>>
  /\ store.messages[store.messageIds[2]].toolCalls = <<[id |-> "t1", result |-> ResultText]>>
  /\ store.messages[store.messageIds[3]].toolCalls = <<>>
  /\ store.messageIds[3] \in ServerIds

\* The planner message latest in messageIds, or None.
LatestPlanner(s) ==
  LET at == {k \in 1..Len(s.messageIds) :
               s.messages[s.messageIds[k]].agent = "planner"}
  IN  IF at = {} THEN None
      ELSE s.messageIds[CHOOSE k \in at : \A j \in at : k >= j]

\* C4: for every event the stream can deliver next that creates a message,
\* with a planner message in the history: if the agent is coder, researcher
\* or reporter and no research is ongoing, appendMessage opens a session
\* under the message's id (appended to researchIds, its plan the latest
\* planner message, its activities [planId, id], ongoingResearchId = id);
\* otherwise it opens none.
C4_SessionOpening ==
  \A event \in ResearchEvents :
    (/\ pc[1] = "streaming"
     /\ event.id \in usableIds(store)
     /\ createsMessage(store, event)
     /\ LatestPlanner(store) # None) =>
      LET id == event.id
          after == appendMessage(store, newMessage(event))
      IN  IF event.agent \in {"coder", "researcher", "reporter"}
             /\ store.ongoingResearchId = None
          THEN /\ after.researchIds = Append(store.researchIds, id)
               /\ after.researchPlanIds[id] = LatestPlanner(store)
               /\ after.researchActivityIds[id] = <<LatestPlanner(store), id>>
               /\ after.ongoingResearchId = id
          ELSE /\ after.researchIds = store.researchIds
               /\ after.researchPlanIds = store.researchPlanIds
               /\ after.ongoingResearchId = store.ongoingResearchId
               /\ DOMAIN after.researchActivityIds = DOMAIN store.researchActivityIds

\* Two planner messages, then a researcher message that opened a session
\* whose plan is the second of them.
C4_Witness ==
  /\ Len(store.messageIds) = 3
  /\ store.messages[store.messageIds[1]].agent = "planner"
  /\ store.messages[store.messageIds[2]].agent = "planner"
  /\ store.messages[store.messageIds[3]].agent = "researcher"
  /\ store.researchIds = <<store.messageIds[3]>>
  /\ store.researchPlanIds[store.messageIds[3]] = store.messageIds[2]
  /\ store.researchActivityIds[store.messageIds[3]]
       = <<store.messageIds[2], store.messageIds[3]>>
  /\ store.ongoingResearchId = store.messageIds[3]

\* Whether the step is one of event processing by invocation 1, as opposed
\* to its catch block.
EventStep == pc[1] = "streaming" /\ pc'[1] = "streaming" /\ nEvents' = nEvents + 1

\* Whether the step takes message id from streaming to not streaming.
StopsStreaming(id) ==
  /\ id \in DOMAIN store.messages
  /\ store.messages[id].isStreaming
  /\ ~store'.messages[id].isStreaming

\* C5: when a session S is ongoing and an event ends the streaming of a
\* reporter message created under S, then after the event
\* researchReportIds[S] is that message's id and ongoingResearchId is none.
C5_ReportRecordedOnClose ==
  [][\A id \in ServerIds :
       (/\ EventStep
        /\ store.ongoingResearchId # None
        /\ id \in Range(store.researchActivityIds[store.ongoingResearchId])
        /\ StopsStreaming(id)
        /\ store.messages[id].agent = "reporter") =>
         /\ store'.researchReportIds[store.ongoingResearchId] = id
         /\ store'.ongoingResearchId = None]_vars

\* Whether the step ends the streaming of the message recorded as the report
\* of research S (recorded before the step or by it).
ReportOfStops(S) ==
  /\ S \in DOMAIN store'.researchReportIds
  /\ LET reportId == store'.researchReportIds[S]
     IN  /\ reportId \in DOMAIN store'.messages
         /\ ~store'.messages[reportId].isStreaming
         /\ reportId \in DOMAIN store.messages => store.messages[reportId].isStreaming

\* C6: ongoingResearchId goes from a session S to none only in a step that
\* ends the streaming of researchReportIds[S] or in the catch block of
\* sendMessage; no update of another message clears it.
C6_ClosedOnlyByItsReport ==
  [][(store.ongoingResearchId # None /\ store'.ongoingResearchId = None) =>
       \/ ~EventStep
       \/ ReportOfStops(store.ongoingResearchId)]_vars

\* The most recent message, in insertion order, whose finishReason is
\* interrupt, or None.
MostRecentInterrupt(s) ==
  LET at == {k \in 1..Len(s.messageIds) :
               s.messages[s.messageIds[k]].finishReason = "interrupt"}
  IN  IF at = {} THEN None
      ELSE s.messageIds[CHOOSE k \in at : \A j \in at : k >= j]

\* C7 as stated: with at least two messages the accessor returns the most
\* recent message whose finishReason is interrupt, wherever it is in
\* messageIds; with fewer, or with no such message, none.
C7_MostRecentInterruptAnywhere ==
  useLastInterruptMessage(store) =
    IF Len(store.messageIds) >= 2 THEN MostRecentInterrupt(store) ELSE None

\* C7 amended: the accessor returns the last message of messageIds when there
\* are at least two and its finishReason is interrupt, and none otherwise,
\* also when an earlier message has finishReason interrupt.
C7_LastMessageIfInterrupt ==
  LET n == Len(store.messageIds)
  IN  /\ (n >= 2 /\ store.messages[store.messageIds[n]].finishReason = "interrupt")
           => useLastInterruptMessage(store) = store.messageIds[n]
      /\ (n < 2 \/ store.messages[store.messageIds[n]].finishReason # "interrupt")
           => useLastInterruptMessage(store) = None

\* An interrupted message is followed by a message that is not: the accessor
\* returns none.
C7_Witness ==
  /\ Len(store.messageIds) >= 2
  /\ MostRecentInterrupt(store) # None
  /\ MostRecentInterrupt(store) # store.messageIds[Len(store.messageIds)]
  /\ useLastInterruptMessage(store) = None

\* C8: the awaiting-feedback accessor returns the second-to-last id of
\* messageIds exactly when there are at least two ids and the last message's
\* finishReason is interrupt, and none otherwise; so once any message is
\* appended after the interrupted one it returns none.
C8_SecondToLastIffInterruptLast ==
  LET n == Len(store.messageIds)
  IN  IF n >= 2 /\ store.messages[store.messageIds[n]].finishReason = "interrupt"
      THEN useLastFeedbackMessageId(store) = store.messageIds[n - 1]
      ELSE useLastFeedbackMessageId(store) = None

\* Three messages, the last one interrupted: the accessor returns the second.
C8_Witness ==
  /\ Len(store.messageIds) = 3
  /\ store.messages[store.messageIds[3]].finishReason = "interrupt"
  /\ useLastFeedbackMessageId(store) = store.messageIds[2]

\* Whether research researchId has a plan message and a report message that
\* is not streaming and not empty.
HasCompletedReport(s, researchId) ==
  /\ researchId \in DOMAIN s.researchPlanIds
  /\ s.researchPlanIds[researchId] \in DOMAIN s.messages
  /\ researchId \in DOMAIN s.researchReportIds
  /\ s.researchReportIds[researchId] \in DOMAIN s.messages
  /\ ~s.messages[s.researchReportIds[researchId]].isStreaming
  /\ s.messages[s.researchReportIds[researchId]].content # <<>>

\* C9: a call of listenToPodcast appends messages and starts a generation
\* only for a research with a plan message and a report message that is not
\* streaming and not empty; any other call leaves the state as it is.
C9_PodcastOnlyForCompletedReport ==
  [][(\/ podcasts' # podcasts /\ podcasts \subseteq podcasts'
      \/ \E id \in Range(store'.messageIds) \ Range(store.messageIds) :
           store'.messages[id].agent = "podcast") =>
       /\ store.openResearchId # None
       /\ HasCompletedReport(store, store.openResearchId)
       /\ Len(store'.messageIds) = Len(store.messageIds) + 2
       /\ Cardinality(podcasts') = Cardinality(podcasts) + 1]_vars

\* A podcast workflow was started for a research and awaits its generation.
C9_Witness ==
  /\ podcasts # {}
  /\ \E p \in podcasts :
       /\ store.messages[p.id].agent = "podcast"
       /\ store.messages[p.id].isStreaming
       /\ HasCompletedReport(store, p.podcastObject[2][2])

\* Whether the JSON text of an object holds the key.
HasKey(text, key) ==
  \E k \in 2..(Len(text) - 2) : k % 2 = 0 /\ text[k] = key

\* The value the JSON text of an object holds under the key.
ValueOf(text, key) ==
  text[(CHOOSE k \in 2..(Len(text) - 2) : k % 2 = 0 /\ text[k] = key) + 1]

\* C10: once the generation call of a podcast workflow has failed, its
\* podcast message is not streaming, its content holds title, researchId and
\* a non-empty error and no audioUrl, that write was the workflow's only one
\* and the workflow showed one notice.
C10_PodcastFailureRecordedOnce ==
  \A id \in DOMAIN podLog :
    podLog[id].failed =>
      LET message == store.messages[id]
      IN  /\ ~message.isStreaming
          /\ HasKey(message.content, "title")
          /\ HasKey(message.content, "researchId")
          /\ ValueOf(message.content, "researchId") \in Range(store.researchIds)
          /\ HasKey(message.content, "error")
          /\ ValueOf(message.content, "error") # ""
          /\ ~HasKey(message.content, "audioUrl")
          /\ podLog[id].writes = 1
          /\ podLog[id].toasts = 1

\* A podcast workflow has failed and none is pending.
C10_Witness ==
  \E id \in DOMAIN podLog :
    /\ podLog[id].failed
    /\ HasKey(store.messages[id].content, "error")
    /\ ~store.messages[id].isStreaming
    /\ podcasts = {}

\* Whether the step is the completion of a podcast workflow.
PodcastCompletes == podcasts' # podcasts /\ podcasts' \subseteq podcasts

\* The ids of the podcast messages of the workflows awaiting their generation.
PendingPodcastIds == {p.id : p \in podcasts}

\* C11: the completion of a podcast workflow, whatever the ingestion has
\* committed since its start, changes only the workflow's podcast message
\* (every other message, messageIds, responding, ongoingResearchId and the
\* research indices stay as the ingestion left them), and no other step
\* changes the podcast message of a pending workflow.
C11_PodcastAndIngestionDisjoint ==
  [][/\ PodcastCompletes =>
          \E p \in podcasts \ podcasts' :
            /\ podcasts' = podcasts \ {p}
            /\ DOMAIN store'.messages = DOMAIN store.messages
            /\ \A id \in DOMAIN store.messages \ {p.id} :
                 store'.messages[id] = store.messages[id]
            /\ [store' EXCEPT !.messages = store.messages] = store
     /\ ~PodcastCompletes =>
          \A id \in PendingPodcastIds :
            store'.messages[id] = store.messages[id]]_vars

\* A podcast workflow has completed after the ingestion committed a message
\* that was created after the workflow's start.
C11_Witness ==
  \E id \in DOMAIN podLog :
    /\ podLog[id].writes = 1
    /\ ~store.messages[id].isStreaming
    /\ \E j, k \in 1..Len(store.messageIds) :
         /\ store.messageIds[j] = id
         /\ j < k
         /\ store.messageIds[k] \in ServerIds

\* The concatenation of a sequence of fragments.
Flatten(chunks) ==
  LET Cat[k \in 0..Len(chunks)] == IF k = 0 THEN <<>> ELSE Cat[k - 1] \o chunks[k]
  IN  Cat[Len(chunks)]

\* Whether the step is the loop body's run on an event that carries a
\* fragment for message id.
FragmentFor(id) ==
  /\ EventStep
  /\ lastEvent'[1].type = "message_chunk"
  /\ lastEvent'[1].id = id
  /\ lastEvent'[1].content # NoFrag

\* C12: each event that carries a fragment for a message id appends the
\* fragment to the message's content (empty at creation) and adds one entry
\* to contentChunks, equal fragments included; no other step changes either;
\* so the content is the concatenation of the fragments in arrival order.
C12_ContentIsConcatenation ==
  [][\A id \in ServerIds :
       LET had == id \in DOMAIN store.messages
           oldContent == IF had THEN store.messages[id].content ELSE <<>>
           oldChunks == IF had THEN store.messages[id].contentChunks ELSE <<>>
       IN  /\ FragmentFor(id) =>
                /\ id \in DOMAIN store'.messages
                /\ store'.messages[id].content = oldContent \o lastEvent'[1].content
                /\ store'.messages[id].contentChunks
                     = Append(oldChunks, lastEvent'[1].content)
           /\ (~FragmentFor(id) /\ id \in DOMAIN store'.messages) =>
                /\ store'.messages[id].content = oldContent
                /\ store'.messages[id].contentChunks = oldChunks
           /\ id \in DOMAIN store'.messages =>
                store'.messages[id].content = Flatten(store'.messages[id].contentChunks)]_vars

\* One message got the fragments b, a, a, in that order.
C12_Witness ==
  \E id \in DOMAIN store.messages :
    /\ id \in ServerIds
    /\ store.messages[id].content = <<"b", "a", "a">>
    /\ store.messages[id].contentChunks = <<<<"b">>, <<"a">>, <<"a">>>>

\* C13: in every step (creation, merge, catch-block cleanup, podcast
\* completion, report editing) a message whose isStreaming is false keeps it
\* false, and every message stays stored under the id it carries.
C13_StreamingNeverResumes ==
  [][/\ \A id \in DOMAIN store.messages :
          /\ id \in DOMAIN store'.messages
          /\ ~store.messages[id].isStreaming => ~store'.messages[id].isStreaming
     /\ \A id \in DOMAIN store'.messages : store'.messages[id].id = id]_vars

\* A message that had finished got a further fragment, a report was edited
\* and a podcast workflow completed: all three messages are not streaming.
C13_Witness ==
  /\ lastEvent[1].type = "message_chunk"
  /\ lastEvent[1].content # NoFrag
  /\ lastEvent[1].id \in DOMAIN store.messages
  /\ store.messages[lastEvent[1].id].finishReason = "stop"
  /\ ~store.messages[lastEvent[1].id].isStreaming
  /\ \E id \in DOMAIN store.messages :
       /\ store.messages[id].agent = "reporter"
       /\ store.messages[id].content \in EditedTexts
       /\ ~store.messages[id].isStreaming
  /\ \E id \in DOMAIN podLog :
       podLog[id].writes = 1 /\ ~store.messages[id].isStreaming

\* C14: in every step (send, event, catch-block cleanup, podcast workflow,
\* open and close research, report editing) messageIds only grows at its
\* end and no key leaves messages.
C14_AppendOnly ==
  [][/\ Len(store'.messageIds) >= Len(store.messageIds)
     /\ SubSeq(store'.messageIds, 1, Len(store.messageIds)) = store.messageIds
     /\ DOMAIN store.messages \subseteq DOMAIN store'.messages]_vars

\* An invocation that appended a user message and created a message has
\* failed or was cancelled while the message was streaming: both are kept.
C14_Witness ==
  /\ pc[1] = "failed"
  /\ userMessageId[1] \in Range(store.messageIds)
  /\ created[1] # {}
  /\ created[1] \subseteq Range(store.messageIds)
  /\ \E id \in created[1] : store.messages[id].finishReason = None

\* C15: responding is true exactly when some sendMessage invocation has
\* opened its stream and has not settled, in every interleaving, also when an
\* invocation starts from the plan card before an earlier one has settled.
C15_RespondingIffInFlight ==
  store.responding <=> (\E i \in Invs : pc[i] = "streaming")

\* C16: the loop body's run on an event of a type the core does not know
\* leaves the conversation state as it is (no message created, appended or
\* modified, no research index changed) and the ingestion goes on.
C16_UnknownTypeIgnored ==
  [][(/\ pc[1] = "streaming"
      /\ nEvents' = nEvents + 1
      /\ lastEvent'[1].type \notin {"message_chunk", "tool_call_result"}) =>
       /\ store' = store
       /\ pc'[1] = "streaming"]_vars

\* Whether the step is the loop body's run on an event that creates a coder,
\* researcher or reporter message while no research is ongoing and no
\* planner message is in messageIds.
OpensWithoutPlan ==
  /\ pc[1] = "streaming"
  /\ nEvents' = nEvents + 1
  /\ createsMessage(store, lastEvent'[1])
  /\ lastEvent'[1].agent \in {"coder", "researcher", "reporter"}
  /\ store.ongoingResearchId = None
  /\ LatestPlanner(store) = None

\* C17: a coder, researcher or reporter message arriving with no ongoing
\* research and no planner message is not treated as a failure of the
\* stream: sendMessage shows no notice for it and its catch block does not
\* run on it.
C17_NoPlanNotAbsorbed ==
  [][OpensWithoutPlan =>
       /\ invToasts'[1] = invToasts[1]
       /\ pc'[1] # "failed"]_vars

\* Whether every id of researchIds and of every activity list of s is in
\* messageIds.
ResearchIdsAreMessages(s) ==
  /\ Range(s.researchIds) \subseteq Range(s.messageIds)
  /\ \A researchId \in DOMAIN s.researchActivityIds :
       Range(s.researchActivityIds[researchId]) \subseteq Range(s.messageIds)

\* C18: for every event the stream can deliver next that creates a coder,
\* researcher or reporter message, every state in which the research
\* grouping has run for it already holds the message (its id in messageIds,
\* its value in messages), and every id of researchIds and of the activity
\* lists is in messageIds.
C18_GroupingSeesCommit ==
  \A event \in ResearchEvents :
    (/\ pc[1] = "streaming"
     /\ event.id \in usableIds(store)
     /\ createsMessage(store, event)
     /\ IsResearchAgent(event.agent)
     /\ ~eventThrows(store, event)) =>
      LET snapshots == appendMessageSnapshots(store, newMessage(event))
      IN  \A k \in 1..Len(snapshots) :
            /\ event.id \in Range(snapshots[k].messageIds)
            /\ event.id \in DOMAIN snapshots[k].messages
            /\ ResearchIdsAreMessages(snapshots[k])

\* How many times id occurs in the sequence ids.
Occurrences(ids, id) == Cardinality({k \in 1..Len(ids) : ids[k] = id})

\* C19: in every step taken while a session S is ongoing, each id the step
\* appends to messageIds is once in researchActivityIds[S] after the step,
\* and is researchReportIds[S] if its message's agent is reporter.
C19_EveryAppendIsActivity ==
  [][\A k \in (Len(store.messageIds) + 1)..Len(store'.messageIds) :
       LET S == store.ongoingResearchId
           id == store'.messageIds[k]
       IN  S # None =>
             /\ S \in DOMAIN store'.researchActivityIds
             /\ Occurrences(store'.researchActivityIds[S], id) = 1
             /\ store'.messages[id].agent = "reporter" =>
                  /\ S \in DOMAIN store'.researchReportIds
                  /\ store'.researchReportIds[S] = id]_vars

\* The position of id in the sequence ids (id is in it).
IndexOf(ids, id) == CHOOSE k \in 1..Len(ids) : ids[k] = id

\* C20: a sendMessage with content appends one new user message and nothing
\* else before any event of its stream is consumed, and one without content
\* appends nothing; from then on, whatever the invocation does (consume
\* events, end, fail, be aborted), that user message is in the store, once in
\* messageIds and before every message the invocation's events created.
C20_UserMessageFirst ==
  [][LET u == userMessageId'[1]
     IN  /\ nSends' = nSends + 1 =>
               /\ created'[1] = {}
               /\ IF u = None
                  THEN /\ store'.messageIds = store.messageIds
                       /\ store'.messages = store.messages
                  ELSE /\ u \notin DOMAIN store.messages
                       /\ store'.messageIds = Append(store.messageIds, u)
                       /\ store'.messages[u].role = "user"
                       /\ store'.messages[u].content = UserText
                       /\ store'.messages[u].contentChunks = <<UserText>>
         /\ u # None =>
               /\ u \in DOMAIN store'.messages
               /\ store'.messages[u].role = "user"
               /\ Occurrences(store'.messageIds, u) = 1
               /\ \A id \in created'[1] :
                    /\ id \in Range(store'.messageIds)
                    /\ IndexOf(store'.messageIds, u) < IndexOf(store'.messageIds, id)]_vars

\* A sendMessage with content whose stream created a message and then ended
\* in the catch block: the user message is still there, before that message.
C20_Witness ==
  /\ pc[1] = "failed"
  /\ userMessageId[1] # None
  /\ userMessageId[1] \in Range(store.messageIds)
  /\ getMessage(store, userMessageId[1]).role = "user"
  /\ created[1] # {}
  /\ \A id \in created[1] :
       IndexOf(store.messageIds, userMessageId[1]) < IndexOf(store.messageIds, id)

\* Whether the step is openResearch or closeResearch called from the panel:
\* openResearchId changes and no invocation moves.
PanelOpensOrCloses ==
  /\ store'.openResearchId # store.openResearchId
  /\ UNCHANGED <<pc, nEvents, nSends, podcasts, podLog>>

\* C21: every step that sets or clears ongoingResearchId leaves
\* openResearchId as it was, and openResearch and closeResearch leave
\* ongoingResearchId as it was.
C21_OpenAndOngoingIndependent ==
  [][/\ store'.ongoingResearchId # store.ongoingResearchId =>
          store'.openResearchId = store.openResearchId
     /\ PanelOpensOrCloses =>
          store'.ongoingResearchId = store.ongoingResearchId]_vars

\* Whether the step is the catch block of invocation i.
CatchStep(i) == pc[i] = "streaming" /\ pc'[i] = "failed"

\* C22: the catch block of an ingestion leaves ongoingResearchId none and
\* keeps researchIds, the plan, report and activity indices, messageIds and
\* the content of every message as they were.
C22_CleanupKeepsGrouping ==
  [][\A i \in Invs : CatchStep(i) =>
       /\ store'.ongoingResearchId = None
       /\ store'.researchIds = store.researchIds
       /\ store'.researchPlanIds = store.researchPlanIds
       /\ store'.researchReportIds = store.researchReportIds
       /\ store'.researchActivityIds = store.researchActivityIds
       /\ store'.messageIds = store.messageIds
       /\ DOMAIN store'.messages = DOMAIN store.messages
       /\ \A id \in DOMAIN store.messages :
            /\ store'.messages[id].content = store.messages[id].content
            /\ store'.messages[id].contentChunks = store.messages[id].contentChunks]_vars

\* An invocation has ended in its catch block while a session without a
\* report was ongoing: the session is still recorded, with its plan and its
\* activity list, and no session is ongoing.
C22_Witness ==
  /\ pc[1] = "failed"
  /\ store.ongoingResearchId = None
  /\ \E S \in Range(store.researchIds) :
       /\ S \notin DOMAIN store.researchReportIds
       /\ S \in DOMAIN store.researchPlanIds
       /\ Len(store.researchActivityIds[S]) >= 2

\* Whether the step is listenToPodcast going past its guards.
PodcastStarts == podcasts' # podcasts /\ podcasts \subseteq podcasts'

\* Whether message id is the podcast message of a workflow that has made its
\* one write: not streaming, with audioUrl or error and not both.
PodcastDone(id) ==
  /\ id \in DOMAIN podLog
  /\ podLog[id].writes = 1
  /\ ~store.messages[id].isStreaming
  /\ HasKey(store.messages[id].content, "title")
  /\ HasKey(store.messages[id].content, "researchId")
  /\ HasKey(store.messages[id].content, "audioUrl") # HasKey(store.messages[id].content, "error")
  /\ podLog[id].failed = HasKey(store.messages[id].content, "error")

\* C23: a podcast workflow appends its request (a user message) and directly
\* after it its podcast message, streaming, with content {title, researchId};
\* that message changes in no step but the workflow's completion, a catch
\* block of an ingestion included; a message that is done stays as it is; and
\* with the generation call settling, every pending podcast message gets
\* done: one write, not streaming, audioUrl on success or error on failure.
C23_PodcastSettlesOnce ==
  /\ [][/\ PodcastStarts =>
             \E p \in podcasts' \ podcasts :
               LET n == Len(store'.messageIds)
               IN  /\ n = Len(store.messageIds) + 2
                   /\ store'.messageIds[n] = p.id
                   /\ store'.messages[store'.messageIds[n - 1]].role = "user"
                   /\ store'.messages[p.id].agent = "podcast"
                   /\ store'.messages[p.id].isStreaming
                   /\ store'.messages[p.id].content = JSONstringify(p.podcastObject)
                   /\ Len(p.podcastObject) = 2
                   /\ p.podcastObject[1][1] = "title"
                   /\ p.podcastObject[2][1] = "researchId"
                   /\ podLog'[p.id].writes = 0
        /\ \A id \in DOMAIN podLog :
             /\ store'.messages[id] # store.messages[id] =>
                  /\ id \in PendingPodcastIds
                  /\ PodcastCompletes
                  /\ podLog'[id].writes = 1
             /\ (\E i \in Invs : CatchStep(i)) => store'.messages[id] = store.messages[id]]_vars
  /\ \A id \in Range(LocalIds) : (id \in PendingPodcastIds) ~> PodcastDone(id)

\* A podcast workflow has made its write after an ingestion ended in its
\* catch block while the workflow was pending.
C23_Witness ==
  \E id \in DOMAIN podLog :
    /\ PodcastDone(id)
    /\ pc[1] = "failed"
    /\ \E j, k \in 1..Len(store.messageIds) :
         /\ store.messageIds[j] = id
         /\ j < k
         /\ store.messageIds[k] \in ServerIds

\* C24: the activity list of every session has no id twice, starts with the
\* session's plan id and has the session's own id second; and the
\* activity-append step run with the session ongoing for a message whose id
\* the list has leaves the list as it is.
C24_ActivityListShape ==
  \A S \in DOMAIN store.researchActivityIds :
    LET list == store.researchActivityIds[S]
    IN  /\ \A id \in Range(list) : Occurrences(list, id) = 1
        /\ Len(list) >= 2
        /\ S \in DOMAIN store.researchPlanIds
        /\ list[1] = store.researchPlanIds[S]
        /\ list[2] = S
        /\ \A id \in Range(list) \cap DOMAIN store.messages :
             appendResearchActivity(setOngoingResearch(store, S),
                                    getMessage(store, id)).researchActivityIds[S] = list

\* A session whose list got an id after the two of its opening.
C24_Witness ==
  \E S \in DOMAIN store.researchActivityIds :
    /\ Len(store.researchActivityIds[S]) >= 3
    /\ store.researchActivityIds[S][2] = S
    /\ Range(store.researchActivityIds[S]) \subseteq DOMAIN store.messages

\* C25: messageIds has no id twice and the keys of messages are the ids of
\* messageIds.
C25_IdsAndKeysAgree ==
  /\ \A id \in Range(store.messageIds) : Occurrences(store.messageIds, id) = 1
  /\ DOMAIN store.messages = Range(store.messageIds)

\* The last event the loop body ran on carried the id of the first message,
\* which was there before the second was created.
C25_Witness ==
  /\ pc[1] = "streaming"
  /\ Len(store.messageIds) >= 2
  /\ lastEvent[1].id = store.messageIds[1]
  /\ store.messageIds[2] \in created[1]
  /\ ~store.messages[store.messageIds[1]].isStreaming

\* The ids recorded as the plan of some session.
PlanIds(s) == {s.researchPlanIds[S] : S \in DOMAIN s.researchPlanIds}

\* C26: ongoingResearchId is none or a member of researchIds; researchIds has
\* no id twice; every member of researchIds has a plan, the id of a planner
\* message, and an activity list; every recorded report is the id of a
\* reporter message of its session's activity list; and an id that is no
\* session's plan is in the activity list of one session at most.
C26_ResearchIndicesConsistent ==
  /\ store.ongoingResearchId = None \/ store.ongoingResearchId \in Range(store.researchIds)
  /\ \A S \in Range(store.researchIds) :
       /\ Occurrences(store.researchIds, S) = 1
       /\ S \in DOMAIN store.researchPlanIds
       /\ hasMessage(store, store.researchPlanIds[S])
       /\ getMessage(store, store.researchPlanIds[S]).agent = "planner"
       /\ S \in DOMAIN store.researchActivityIds
  /\ \A S \in DOMAIN store.researchReportIds :
       /\ S \in Range(store.researchIds)
       /\ hasMessage(store, store.researchReportIds[S])
       /\ getMessage(store, store.researchReportIds[S]).agent = "reporter"
       /\ store.researchReportIds[S] \in Range(store.researchActivityIds[S])
  /\ \A S, T \in DOMAIN store.researchActivityIds :
       S # T =>
         (Range(store.researchActivityIds[S]) \cap Range(store.researchActivityIds[T]))
           \subseteq PlanIds(store)

\* Two sessions are recorded, the first with a report, the second ongoing.
C26_Witness ==
  /\ Len(store.researchIds) >= 2
  /\ store.researchIds[1] \in DOMAIN store.researchReportIds
  /\ store.ongoingResearchId = store.researchIds[2]

\* Whether the step is the loop body's run on a tool_call_result whose
\* tool_call_id no message declares.
UnmatchedResultStep ==
  /\ pc[1] = "streaming"
  /\ nEvents' = nEvents + 1
  /\ lastEvent'[1].type = "tool_call_result"
  /\ findMessageByToolCallId(store, lastEvent'[1].tool_call_id) = None

\* C27: a tool_call_result whose tool_call_id no message declares creates no
\* message; when a message has the event's own id, that message becomes its
\* merge with the event and no other message changes; when none has it, the
\* store stays as it is; either way the invocation is still consuming.
C27_UnmatchedResultCreatesNothing ==
  [][UnmatchedResultStep =>
       LET event == lastEvent'[1]
       IN  /\ store'.messageIds = store.messageIds
           /\ DOMAIN store'.messages = DOMAIN store.messages
           /\ created'[1] = created[1]
           /\ pc'[1] = "streaming"
           /\ invToasts'[1] = invToasts[1]
           /\ IF hasMessage(store, event.id)
              THEN /\ store'.messages[event.id] = mergeMessage(store.messages[event.id], event)
                   /\ \A id \in DOMAIN store.messages \ {event.id} :
                        store'.messages[id] = store.messages[id]
              ELSE store' = store]_vars

\* The loop body has run on a tool_call_result that carries the id of a
\* message of the store while no message declares its tool call.
C27_Witness ==
  /\ pc[1] = "streaming"
  /\ lastEvent[1].type = "tool_call_result"
  /\ findMessageByToolCallId(store, lastEvent[1].tool_call_id) = None
  /\ hasMessage(store, lastEvent[1].id)

\* C28: when an event's message would open a session and history holds no
\* planner message, the step ends the invocation in its catch block and
\* changes nothing of the store but responding, which it leaves false: the
\* message is not in messageIds or messages, the research indices,
\* ongoingResearchId (none) and openResearchId are as before, and the
\* invocation has left its loop (an invocation that has failed consumes no
\* event).
C28_FailedOpeningIsAtomic ==
  [][OpensWithoutPlan =>
       /\ store' = [store EXCEPT !.responding = FALSE]
       /\ lastEvent'[1].id \notin Range(store'.messageIds)
       /\ lastEvent'[1].id \notin DOMAIN store'.messages
       /\ store'.ongoingResearchId = None
       /\ store'.researchIds = store.researchIds
       /\ store'.openResearchId = store.openResearchId
       /\ created'[1] = created[1]
       /\ pc'[1] = "failed"
       /\ nSends' = nSends]_vars

\* An invocation that appended its user message has ended on an event that
\* would have opened a session with no planner message in history.
C28_Witness ==
  /\ pc[1] = "failed"
  /\ IsResearchAgent(lastEvent[1].agent)
  /\ lastEvent[1].id \notin Range(store.messageIds)
  /\ LatestPlanner(store) = None
  /\ userMessageId[1] \in Range(store.messageIds)
  /\ store.researchIds = <<>>
  /\ ~store.responding

\* Whether the graph of s shows step stepIndex (counted from 0): a node is
\* active exactly when the step lists it in activeNodes, an edge is animated
\* exactly when the step lists it in activeEdges.
ShowsStep(s, stepIndex) ==
  /\ \A id \in MavNodeIds :
       s.graph.nodes[id].active <=>
         \E k \in 1..Len(playbook[stepIndex + 1].activeNodes) :
           playbook[stepIndex + 1].activeNodes[k] = id
  /\ \A id \in MavEdgeIds :
       s.graph.edges[id].animated <=>
         \E k \in 1..Len(playbook[stepIndex + 1].activeEdges) :
           playbook[stepIndex + 1].activeEdges[k] = id

\* C29: in every state of the visualization, with N the number of playbook
\* steps, nextStep leaves activeStepIndex 0 when it was N-1 and one more
\* otherwise, prevStep leaves it N-1 when it was 0 or -1 and one less
\* otherwise, both leave it within 0..N-1, and after either the graph shows
\* the step of the new index.
C29_StepsStayInRange ==
  LET N == Len(playbook)
      i == mav.activeStepIndex
      afterNext == nextStep(mav)
      afterPrev == prevStep(mav)
  IN  /\ i \in -1..(N - 1)
      /\ afterNext.activeStepIndex = (IF i = N - 1 THEN 0 ELSE i + 1)
      /\ afterPrev.activeStepIndex = (IF i = 0 \/ i = -1 THEN N - 1 ELSE i - 1)
      /\ afterNext.activeStepIndex \in 0..(N - 1)
      /\ afterPrev.activeStepIndex \in 0..(N - 1)
      /\ ShowsStep(afterNext, afterNext.activeStepIndex)
      /\ ShowsStep(afterPrev, afterPrev.activeStepIndex)
      /\ afterNext.playing = mav.playing
      /\ afterPrev.playing = mav.playing

\* The last step is active with nothing playing and no play() call waiting,
\* as after prevStep from the initial state: nextStep wraps from here.
C29_Witness ==
  /\ mav.activeStepIndex = Len(playbook) - 1
  /\ ShowsStep(mav, Len(playbook) - 1)
  /\ ~mav.playing
  /\ loops = 0
  /\ ~hasPlayed
  /\ nextStep(mav).activeStepIndex = 0

\* Whether the step is a play() call waking to find the last step active
\* while playing.
LoopReachesLastStep ==
  /\ loops' = loops - 1
  /\ mav.playing
  /\ mav.activeStepIndex = Len(playbook) - 1

\* C30: whatever the order of play, pause and togglePlay calls, at most one
\* play() call is waiting to advance the step at any time, and a call that
\* wakes to find the last step active while playing resets the store to
\* playing = false, activeStepIndex = -1 and the initial graph.
C30_OneLoopAtATime ==
  [][/\ loops' <= 1
     /\ LoopReachesLastStep => mav' = InitMAV]_vars

====
